---- MODULE Spec2Model ----
(***************************************************************************)
(* A model of promtimer/cbstats.py: the stats sources of promtimer.        *)
(*                                                                         *)
(* Text is modelled at the level of characters: a string is a sequence of  *)
(* one-character strings, a file is a sequence of lines (each without its  *)
(* line break, which rstrip() removes anyway).                             *)
(***************************************************************************)
EXTENDS Integers, Sequences, FiniteSets, TLC

VARIABLES
  \* CBCollect: one archived source and the couchbase.log of its directory
  logfile,      \* the lines of couchbase.log on disk
  config,       \* self._config: <<>> for None, else <<the parsed dict>>
  parses,       \* how many times parse_couchbase_log has been called
  parsed_log,   \* the lines parse_couchbase_log read: <<>> or <<lines>>
  returned,     \* the bucket lists get_buckets has returned, in order
  \* ServerNode: the nodes of a live cluster
  sources,      \* the ServerNodes the last get_stats_sources returned
  live_call,    \* the last ServerNode.get_buckets: its request and its end
  error_log,    \* how many times logging.error has been called
  live_calls,   \* how many calls have been made to the live cluster
  \* CBCollect.get_data_source_names
  dirs,         \* cbcollect_dirs, the argument
  names,        \* <<>> before the call, then <<the list returned>>
  \* CBCollect.get_cbcollect_dirs: the working directory
  disk,         \* the paths that exist in the working directory
  zips,         \* the *.zip files of the working directory, sorted by name
  runs,         \* per run of get_cbcollect_dirs: what it extracted, returned
  clobbered,    \* the entries extracted over something already present
  \* get_prometheus_times and compute_min_and_max_times
  shards,       \* the meta.json files of the directory scanned last
  source_times, \* the (min, max) of each source scanned so far
  overall       \* <<>>, then <<compute_min_and_max_times of the sources>>

srcVars == <<logfile, config, parses, parsed_log, returned>>
liveVars == <<sources, live_call, error_log, live_calls>>
nameVars == <<dirs, names>>
zipVars == <<disk, zips, runs, clobbered>>
timeVars == <<shards, source_times, overall>>
vars == <<srcVars, liveVars, nameVars, zipVars, timeVars>>

\* The parts of the state a component's specification leaves as they are.
SrcIdle ==
  /\ logfile = <<>>
  /\ config = <<>>
  /\ parses = 0
  /\ parsed_log = <<>>
  /\ returned = <<>>

LiveIdle ==
  /\ sources = <<>>
  /\ live_call = [request |-> "none", status |-> "none", value |-> <<>>,
                  logged |-> FALSE]
  /\ error_log = 0
  /\ live_calls = 0

NameIdle ==
  /\ dirs = <<>>
  /\ names = <<>>

ZipIdle ==
  /\ disk = {}
  /\ zips = <<>>
  /\ runs = <<>>
  /\ clobbered = {}

TimeIdle ==
  /\ shards = <<>>
  /\ source_times = <<>>
  /\ overall = <<>>

(***************************************************************************)
(* Python's str and re operations used by cbstats.py.                      *)
(***************************************************************************)

\* The printable ASCII characters in code-point order (32..126); the backtick
\* (96) stands under a name, as a place holder.
Ascii ==
  <<" ","!","\"","#","$","%","&","'","(",")","*","+",",","-",".","/",
    "0","1","2","3","4","5","6","7","8","9",":",";","<","=",">","?","@",
    "A","B","C","D","E","F","G","H","I","J","K","L","M","N","O","P","Q","R",
    "S","T","U","V","W","X","Y","Z","[","\\","]","^","_","backtick",
    "a","b","c","d","e","f","g","h","i","j","k","l","m","n","o","p","q","r",
    "s","t","u","v","w","x","y","z","{","|","}","~">>

\* ord(c)
Ord(c) == 31 + (CHOOSE i \in 1..Len(Ascii) : Ascii[i] = c)

\* s < t for Python str: lexicographic by code point, a proper prefix first.
RECURSIVE StrLess(_, _)
StrLess(s, t) ==
  IF t = <<>> THEN FALSE
  ELSE IF s = <<>> THEN TRUE
  ELSE IF Head(s) = Head(t) THEN StrLess(Tail(s), Tail(t))
  ELSE Ord(Head(s)) < Ord(Head(t))

\* The insertion of x into the sorted list l, after the elements not above it.
RECURSIVE Insert(_, _)
Insert(x, l) ==
  IF l = <<>> THEN <<x>>
  ELSE IF StrLess(x, Head(l)) THEN <<x>> \o l
  ELSE <<Head(l)>> \o Insert(x, Tail(l))

\* sorted(l) for a list of str.
RECURSIVE sorted(_)
sorted(l) == IF l = <<>> THEN <<>> ELSE Insert(Head(l), sorted(Tail(l)))

IsSpace(c) == c = " "

\* s.rstrip()
RECURSIVE rstrip(_)
rstrip(s) ==
  IF s = <<>> THEN s
  ELSE IF IsSpace(s[Len(s)]) THEN rstrip(SubSeq(s, 1, Len(s) - 1))
  ELSE s

\* s.lstrip()
RECURSIVE lstrip(_)
lstrip(s) ==
  IF s = <<>> THEN s
  ELSE IF IsSpace(Head(s)) THEN lstrip(Tail(s))
  ELSE s

\* s.strip()
strip(s) == lstrip(rstrip(s))

\* s.startswith(p)
startswith(s, p) == Len(s) >= Len(p) /\ SubSeq(s, 1, Len(p)) = p

\* s.endswith(p)
endswith(s, p) == Len(s) >= Len(p) /\ SubSeq(s, Len(s) - Len(p) + 1, Len(s)) = p

\* s.replace(old, new), old non-empty: every occurrence, left to right.
RECURSIVE replace(_, _, _)
replace(s, old, new) ==
  IF s = <<>> THEN s
  ELSE IF startswith(s, old)
       THEN new \o replace(SubSeq(s, Len(old) + 1, Len(s)), old, new)
       ELSE <<Head(s)>> \o replace(Tail(s), old, new)

\* The position of the first c in s, 0 when there is none.
find(s, c) ==
  IF \E i \in 1..Len(s) : s[i] = c
  THEN CHOOSE i \in 1..Len(s) : s[i] = c /\ \A j \in 1..(i - 1) : s[j] # c
  ELSE 0

\* s.split(sep) for a one-character sep: always at least one piece.
RECURSIVE split(_, _)
split(s, sep) ==
  LET i == find(s, sep) IN
  IF i = 0 THEN <<s>>
  ELSE <<SubSeq(s, 1, i - 1)>> \o split(SubSeq(s, i + 1, Len(s)), sep)

(***************************************************************************)
(* The literals of the configuration dump parsers.                         *)
(***************************************************************************)
ChronicleDump == <<"C","h","r","o","n","i","c","l","e"," ","d","u","m","p">>
ChronicleConfig ==
  <<"C","h","r","o","n","i","c","l","e"," ","c","o","n","f","i","g">>
CouchbaseConfig ==
  <<"C","o","u","c","h","b","a","s","e"," ","c","o","n","f","i","g">>
\* ' {bucket_names,'
OlderBucketNamesKey ==
  <<" ","{","b","u","c","k","e","t","_","n","a","m","e","s",",">>
\* ' {bucket_names,['
OlderBucketNamesOpen == OlderBucketNamesKey \o <<"[">>
\* '{bucket_names,{[' (after ^\s*)
DumpBucketNamesOpen ==
  <<"{","b","u","c","k","e","t","_","n","a","m","e","s",",","{","[">>
\* ']},'
OlderCloser == <<"]","}",",">>
\* ' {buckets,'
BucketsMarker == <<" ","{","b","u","c","k","e","t","s",",">>
\* '=================='
SectionDivider ==
  <<"=","=","=","=","=","=","=","=","=","=","=","=","=","=","=","=","=","=">>

\* The bucket names of an assembled bucket_list:
\* bucket_list.replace(' ','').replace('"','').split(','), nothing for ''.
BucketsOf(bucket_list) ==
  IF bucket_list # <<>>
  THEN split(replace(replace(bucket_list, <<" ">>, <<>>), <<"\"">>, <<>>), ",")
  ELSE <<>>

(***************************************************************************)
(* parse_couchbase_chronicle: the 'Chronicle dump' section.                *)
(***************************************************************************)

\* re.match('(^\s*{bucket_names,{\[)(.*)', line): whether it matches, and group 2.
DumpOpenMatch(line) ==
  LET rest == lstrip(line) IN
  IF startswith(rest, DumpBucketNamesOpen)
  THEN [matched |-> TRUE,
        group2 |-> SubSeq(rest, Len(DumpBucketNamesOpen) + 1, Len(rest))]
  ELSE [matched |-> FALSE, group2 |-> <<>>]

\* re.match('^([^\]]*)\].*', s): whether it matches, and group 1.
CloseBracketMatch(s) ==
  LET i == find(s, "]") IN
  IF i > 0 THEN [matched |-> TRUE, group1 |-> SubSeq(s, 1, i - 1)]
  ELSE [matched |-> FALSE, group1 |-> <<>>]

ChronicleStart ==
  [in_config |-> FALSE, in_buckets |-> FALSE, bucket_list |-> <<>>,
   broke |-> FALSE]

\* One iteration of the loop over the lines of the file.
ChronicleLine(st, full_line) ==
  LET line == rstrip(full_line) IN
  IF ~st.in_config /\ line = ChronicleDump
  THEN [st EXCEPT !.in_config = TRUE]
  ELSE IF st.in_config
  THEN LET cleared == <<>>   \* bucket_list = '' on every line of the section
           m == DumpOpenMatch(line)
           in_buckets == st.in_buckets \/ m.matched
           possible_buckets ==
             IF ~st.in_buckets
             THEN (IF m.matched THEN m.group2 ELSE <<>>)
             ELSE line
           c == CloseBracketMatch(possible_buckets)
       IN IF possible_buckets # <<>>
          THEN IF c.matched
               THEN [st EXCEPT !.in_buckets = in_buckets,
                               !.bucket_list = cleared \o c.group1,
                               !.broke = TRUE]
               ELSE [st EXCEPT !.in_buckets = in_buckets,
                               !.bucket_list = cleared \o possible_buckets]
          ELSE [st EXCEPT !.in_buckets = in_buckets, !.bucket_list = cleared]
  ELSE st

\* The loop: the lines in order, until a break.
RECURSIVE ChronicleLoop(_, _)
ChronicleLoop(st, lines) ==
  IF lines = <<>> \/ st.broke THEN st
  ELSE ChronicleLoop(ChronicleLine(st, Head(lines)), Tail(lines))

parse_couchbase_chronicle(file) ==
  [buckets |-> sorted(BucketsOf(ChronicleLoop(ChronicleStart, file).bucket_list))]

(***************************************************************************)
(* parse_couchbase_chronicle_older_version: the 'Chronicle config' section.*)
(***************************************************************************)
OlderStart ==
  [in_config |-> FALSE, in_buckets |-> FALSE, bucket_list |-> <<>>,
   broke |-> FALSE]

OlderLine(st, full_line) ==
  LET line == rstrip(full_line) IN
  IF ~st.in_config /\ line = ChronicleConfig
  THEN [st EXCEPT !.in_config = TRUE]
  ELSE IF st.in_config
  THEN LET opens == ~st.in_buckets /\ startswith(line, OlderBucketNamesKey)
           in_buckets == st.in_buckets \/ opens
           possible_buckets ==
             IF ~st.in_buckets
             THEN (IF opens THEN replace(line, OlderBucketNamesOpen, <<>>)
                   ELSE <<>>)
             ELSE line
           end_of_list ==
             possible_buckets # <<>> /\ endswith(possible_buckets, OlderCloser)
           kept ==
             IF end_of_list
             THEN SubSeq(possible_buckets, 1, Len(possible_buckets) - 3)
             ELSE possible_buckets
       IN IF possible_buckets # <<>>
          THEN [st EXCEPT !.in_buckets = in_buckets,
                          !.bucket_list = st.bucket_list \o kept,
                          !.broke = end_of_list]
          ELSE [st EXCEPT !.in_buckets = in_buckets]
  ELSE st

RECURSIVE OlderLoop(_, _)
OlderLoop(st, lines) ==
  IF lines = <<>> \/ st.broke THEN st
  ELSE OlderLoop(OlderLine(st, Head(lines)), Tail(lines))

parse_couchbase_chronicle_older_version(file) ==
  [buckets |-> sorted(BucketsOf(OlderLoop(OlderStart, file).bucket_list))]

(***************************************************************************)
(* parse_couchbase_ns_config: the 'Couchbase config' section.              *)
(***************************************************************************)

\* re.match('^ \{.*,$', line)
SiblingMatch(line) ==
  /\ Len(line) >= 3
  /\ line[1] = " "
  /\ line[2] = "{"
  /\ line[Len(line)] = ","

\* re.match('^    [ \[]\{\"(.*)\",$', line): whether it matches, and group 1.
BucketLineMatch(line) ==
  IF /\ Len(line) >= 9
     /\ SubSeq(line, 1, 4) = <<" ", " ", " ", " ">>
     /\ line[5] \in {" ", "["}
     /\ line[6] = "{"
     /\ line[7] = "\""
     /\ line[Len(line) - 1] = "\""
     /\ line[Len(line)] = ","
  THEN [matched |-> TRUE, group1 |-> SubSeq(line, 8, Len(line) - 2)]
  ELSE [matched |-> FALSE, group1 |-> <<>>]

NsStart ==
  [in_config |-> FALSE, in_buckets |-> FALSE, buckets |-> <<>>,
   section_divider_count |-> 0, broke |-> FALSE]

NsLine(st, full_line) ==
  LET line == rstrip(full_line) IN
  IF ~st.in_config /\ rstrip(line) = CouchbaseConfig
  THEN [st EXCEPT !.in_config = TRUE]
  ELSE IF st.in_config
  THEN LET divider == startswith(strip(line), SectionDivider)
           count == IF divider THEN st.section_divider_count + 1
                    ELSE st.section_divider_count
           m == BucketLineMatch(line)
       IN IF divider /\ count = 2
          THEN [st EXCEPT !.section_divider_count = count, !.broke = TRUE]
          ELSE IF ~st.in_buckets /\ line = BucketsMarker
          THEN [st EXCEPT !.section_divider_count = count, !.in_buckets = TRUE]
          ELSE IF st.in_buckets
          THEN IF SiblingMatch(line)
               THEN [st EXCEPT !.section_divider_count = count, !.broke = TRUE]
               ELSE IF m.matched
               THEN [st EXCEPT !.section_divider_count = count,
                               !.buckets = Append(st.buckets, m.group1)]
               ELSE [st EXCEPT !.section_divider_count = count]
          ELSE [st EXCEPT !.section_divider_count = count]
  ELSE st

RECURSIVE NsLoop(_, _)
NsLoop(st, lines) ==
  IF lines = <<>> \/ st.broke THEN st
  ELSE NsLoop(NsLine(st, Head(lines)), Tail(lines))

parse_couchbase_ns_config(file) ==
  [buckets |-> sorted(NsLoop(NsStart, file).buckets)]

(***************************************************************************)
(* parse_couchbase_log: the first sub-parser with a non-empty bucket list. *)
(***************************************************************************)
\* A variant that tries the older 'Chronicle config' parser first.
parse_couchbase_log_older_first(file) ==
  LET config1 == parse_couchbase_chronicle_older_version(file) IN
  IF config1.buckets = <<>>
  THEN LET config2 == parse_couchbase_chronicle(file) IN
       IF config2.buckets = <<>>
       THEN parse_couchbase_ns_config(file)
       ELSE config2
  ELSE config1

parse_couchbase_log(file) ==
  LET config1 == parse_couchbase_chronicle(file) IN
  IF config1.buckets = <<>>
  THEN LET config2 == parse_couchbase_chronicle_older_version(file) IN
       IF config2.buckets = <<>>
       THEN parse_couchbase_ns_config(file)
       ELSE config2
  ELSE config1

(***************************************************************************)
(* The configuration dumps the model reads: a file is up to MaxFragments   *)
(* fragments, each one line or one well-formed section of a format.        *)
(***************************************************************************)
\* ' {bucket_names,{["a","b"],x}},'
LineDumpSingle ==
  <<" ","{","b","u","c","k","e","t","_","n","a","m","e","s",",","{","[","\"","a","\"",",","\"","b","\"","]",",","x","}","}",",">>
\* ' {bucket_names,{["b",'
LineDumpOpen ==
  <<" ","{","b","u","c","k","e","t","_","n","a","m","e","s",",","{","[","\"","b","\"",",">>
\* '  "a"],x}},'
LineDumpClose ==
  <<" "," ","\"","a","\"","]",",","x","}","}",",">>
\* '  "c",'
LineContinue ==
  <<" "," ","\"","c","\"",",">>
\* ' {bucket_names,["c"]},'
LineOlderSingle ==
  <<" ","{","b","u","c","k","e","t","_","n","a","m","e","s",",","[","\"","c","\"","]","}",",">>
\* ' {bucket_names,["d",'
LineOlderOpen ==
  <<" ","{","b","u","c","k","e","t","_","n","a","m","e","s",",","[","\"","d","\"",",">>
\* '  "a"]},'
LineOlderClose ==
  <<" "," ","\"","a","\"","]","}",",">>
\* '  "a"]},"z",'
LineOlderCloseMidLine ==
  <<" "," ","\"","a","\"","]","}",",","\"","z","\"",",">>
\* '     {"d",'
LineNsBucket ==
  <<" "," "," "," "," ","{","\"","d","\"",",">>
\* '    [{"e",'
LineNsFirstBucket ==
  <<" "," "," "," ","[","{","\"","e","\"",",">>
\* ' {x,'
LineSibling ==
  <<" ","{","x",",">>

DumpSection == <<ChronicleDump, LineDumpSingle>>
DumpSectionMultiLine ==
  <<ChronicleDump, LineDumpOpen, LineContinue, LineDumpClose>>
OlderSection == <<ChronicleConfig, LineOlderSingle>>
OlderSectionMultiLine ==
  <<ChronicleConfig, LineOlderOpen, LineContinue, LineOlderClose>>
OlderSectionCloseMidLine ==
  <<ChronicleConfig, LineOlderOpen, LineOlderCloseMidLine>>
NsSection ==
  <<CouchbaseConfig, BucketsMarker, LineNsFirstBucket, LineNsBucket, LineSibling>>

Fragments ==
  { <<l>> : l \in {ChronicleDump, ChronicleConfig, CouchbaseConfig,
                   LineDumpSingle, LineDumpOpen, LineDumpClose, LineContinue,
                   LineOlderSingle, LineOlderOpen, LineOlderClose,
                   LineOlderCloseMidLine,
                   BucketsMarker, LineNsBucket, LineNsFirstBucket, LineSibling,
                   SectionDivider} }
  \cup {DumpSection, DumpSectionMultiLine, OlderSection, OlderSectionMultiLine,
        OlderSectionCloseMidLine, NsSection}

MaxFragments == 2

RECURSIVE FilesOf(_)
FilesOf(n) ==
  IF n = 0 THEN {<<>>}
  ELSE FilesOf(n - 1) \cup {f \o g : f \in FilesOf(n - 1), g \in Fragments}

Files == FilesOf(MaxFragments)

\* What the environment may put in place of couchbase.log between two calls.
Rewrites == {<<>>, DumpSection}

MaxCalls == 2

(***************************************************************************)
(* CBCollect.get_buckets                                                   *)
(***************************************************************************)
\* A variant that also takes a config with no buckets for a missing one.
ConfigIsFalsy(c) == c = <<>> \/ c[1].buckets = <<>>

\* self._config is None
ConfigIsNone(c) == c = <<>>

GetBuckets ==
  /\ Len(returned) < MaxCalls
  /\ IF ConfigIsNone(config)
     THEN /\ config' = <<parse_couchbase_log(logfile)>>
          /\ parses' = parses + 1
          /\ parsed_log' = <<logfile>>
     ELSE UNCHANGED <<config, parses, parsed_log>>
  /\ returned' = Append(returned, config'[1].buckets)
  /\ UNCHANGED <<logfile, liveVars, nameVars, zipVars, timeVars>>

\* The environment replaces couchbase.log.
RewriteLog ==
  /\ \E f \in Rewrites : f # logfile /\ logfile' = f
  /\ UNCHANGED <<config, parses, parsed_log, returned>>
  /\ UNCHANGED <<liveVars, nameVars, zipVars, timeVars>>

SrcInit ==
  /\ logfile \in Files
  /\ config = <<>>
  /\ parses = 0
  /\ parsed_log = <<>>
  /\ returned = <<>>
  /\ LiveIdle /\ NameIdle /\ ZipIdle /\ TimeIdle

SrcNext == GetBuckets \/ RewriteLog

SpecSource == SrcInit /\ [][SrcNext]_vars

(***************************************************************************)
(* Properties of the archived source (SpecSource).                         *)
(***************************************************************************)
SubParserResults(file) ==
  <<parse_couchbase_chronicle(file),
    parse_couchbase_chronicle_older_version(file),
    parse_couchbase_ns_config(file)>>

\* C1: parse_couchbase_log returns the result of the first sub-parser, in the
\* order Chronicle dump, Chronicle config (older), ns_config, whose bucket
\* list is non-empty, never a later one's when an earlier one is non-empty,
\* and the empty bucket list when all three are empty.
C1_FirstNonEmptyWins ==
  config # <<>> =>
    LET rs == SubParserResults(parsed_log[1])
        hits == {i \in 1..3 : rs[i].buckets # <<>>}
    IN IF hits = {}
       THEN config[1].buckets = <<>>
       ELSE \A i \in hits : (\A j \in hits : i <= j) => config[1] = rs[i]

\* A dump was parsed in which both Chronicle sub-parsers find buckets, and
\* different ones.
C1_Witness ==
  /\ config # <<>>
  /\ LET rs == SubParserResults(parsed_log[1]) IN
       /\ rs[1].buckets # <<>>
       /\ rs[2].buckets # <<>>
       /\ rs[1].buckets # rs[2].buckets

\* C6: over any sequence of get_buckets calls of one CBCollect source,
\* parse_couchbase_log is called at most once, on the first call (also when
\* it finds no bucket), and every call returns what the first call returned.
C6_ParsedAtMostOnce ==
  /\ parses = (IF returned = <<>> THEN 0 ELSE 1)
  /\ \A i \in 1..Len(returned) : returned[i] = returned[1]

\* Two calls were made, the first found no bucket, and couchbase.log has been
\* replaced since by a dump that does name buckets.
C6_Witness ==
  /\ Len(returned) >= 2
  /\ returned[1] = <<>>
  /\ logfile # parsed_log[1]
  /\ parse_couchbase_log(logfile).buckets # <<>>

\* C10: for a 'Chronicle dump' section whose bucket_names list is spread over
\* several lines, parse_couchbase_chronicle returns every bucket name of the
\* list: of the opening line ("b"), of the continuation line ("c") and of the
\* line with the closing bracket ("a"), and nothing after the bracket.
C10_MultiLineListComplete ==
  (parsed_log # <<>> /\ startswith(parsed_log[1], DumpSectionMultiLine)) =>
    parse_couchbase_chronicle(parsed_log[1]).buckets = <<<<"a">>, <<"b">>, <<"c">>>>

\* The lines after the first 'Chronicle config' line.
RECURSIVE AfterChronicleConfig(_)
AfterChronicleConfig(lines) ==
  IF lines = <<>> THEN <<>>
  ELSE IF rstrip(Head(lines)) = ChronicleConfig THEN Tail(lines)
  ELSE AfterChronicleConfig(Tail(lines))

\* The text of the bucket_names list, line by line: from the first line
\* starting with ' {bucket_names,' on, that line without ' {bucket_names,['.
RECURSIVE ListLines(_)
ListLines(lines) ==
  IF lines = <<>> THEN <<>>
  ELSE IF startswith(rstrip(Head(lines)), OlderBucketNamesKey)
  THEN <<replace(rstrip(Head(lines)), OlderBucketNamesOpen, <<>>)>>
         \o [i \in 1..(Len(lines) - 1) |-> rstrip(lines[i + 1])]
  ELSE ListLines(Tail(lines))

\* The position of the first ']},' in a line, 0 when there is none.
CloserAt(text) ==
  LET at == {i \in 1..Len(text) :
               startswith(SubSeq(text, i, Len(text)), OlderCloser)}
  IN IF at = {} THEN 0 ELSE CHOOSE i \in at : \A j \in at : i <= j

\* The list's text up to its closer: whole lines before the line with the
\* closer, and of that line the part before the closer.
RECURSIVE UpToCloser(_)
UpToCloser(texts) ==
  IF texts = <<>> THEN <<>>
  ELSE IF CloserAt(Head(texts)) # 0
  THEN SubSeq(Head(texts), 1, CloserAt(Head(texts)) - 1)
  ELSE Head(texts) \o UpToCloser(Tail(texts))

HasCloser(texts) == \E i \in 1..Len(texts) : CloserAt(texts[i]) # 0

\* C11: in parse_couchbase_chronicle_older_version, once a line of the
\* bucket_names list contains the closer ']},', at the end of the line or in
\* the middle of it, the bucket list is truncated at the closer: the names
\* returned are those of the text before the closer, and no text after it, on
\* that line or on a later line, contributes.
C11_TruncatedAtCloser ==
  (parsed_log # <<>>
     /\ HasCloser(ListLines(AfterChronicleConfig(parsed_log[1])))) =>
    parse_couchbase_chronicle_older_version(parsed_log[1]).buckets
      = sorted(BucketsOf(UpToCloser(ListLines(AfterChronicleConfig(parsed_log[1])))))

\* The same, for a list whose closer ends its line.
C11_TruncatedAtCloserEndingLine ==
  (parsed_log # <<>>
     /\ LET texts == ListLines(AfterChronicleConfig(parsed_log[1])) IN
          /\ HasCloser(texts)
          /\ \A i \in 1..Len(texts) :
               CloserAt(texts[i]) # 0 =>
                 CloserAt(texts[i]) = Len(texts[i]) - 2) =>
    parse_couchbase_chronicle_older_version(parsed_log[1]).buckets
      = sorted(BucketsOf(UpToCloser(ListLines(AfterChronicleConfig(parsed_log[1])))))

(***************************************************************************)
(* ServerNode: the nodes of a running cluster.                             *)
(***************************************************************************)
MaxNodes == 2
MaxLiveCalls == 3

\* The entries of 'nodesExt': 'hostname' may be missing ("None").
NodeEntries ==
  {[hostname |-> h, services |-> [mgmt |-> p]] :
     h \in {"None", "node1"}, p \in {8091, 9000}}

RECURSIVE NodeListsOf(_)
NodeListsOf(n) ==
  IF n = 0 THEN {<<>>}
  ELSE NodeListsOf(n - 1)
       \cup {Append(l, e) : l \in {k \in NodeListsOf(n - 1) : Len(k) = n - 1},
                             e \in NodeEntries}

\* The names of the buckets of the cluster.
BucketNames == {<<"a">>, <<"b">>, <<"a", "b">>}

\* What pools/default/buckets may answer: the buckets of the cluster, some or
\* all of them, each once, in an order the server chooses.
RECURSIVE BucketListingsOf(_)
BucketListingsOf(left) ==
  {<<>>} \cup UNION {{<<[name |-> b]>> \o l : l \in BucketListingsOf(left \ {b})} :
                      b \in left}

\* util.execute_request: a response with its body, or OSError raised (the
\* cluster cannot be reached, or refuses the credentials).
ExecuteRequest(bodies) ==
  {[ok |-> FALSE, body |-> <<>>]} \cup {[ok |-> TRUE, body |-> b] : b \in bodies}

\* ServerNode(host, port, user, password)
ServerNode(host, port) == [host |-> host, port |-> port]

\* ServerNode.get_buckets: what the call ends with, given the request's
\* outcome. Nothing catches the OSError of a failed request.
ServerNode_get_buckets(response) ==
  IF response.ok
  THEN [request |-> "ok", status |-> "returned",
        value |-> [i \in 1..Len(response.body) |-> response.body[i].name],
        logged |-> FALSE]
  ELSE [request |-> "failed", status |-> "raised", value |-> <<>>,
        logged |-> FALSE]

\* ServerNode.get_stats_sources: the list returned and whether an error is
\* logged, given the request's outcome.
ServerNode_get_stats_sources(response) ==
  IF response.ok
  THEN [result |-> [i \in 1..Len(response.body) |->
                      LET node == response.body[i]
                          host == IF node.hostname = "None" THEN "127.0.0.1"
                                  ELSE node.hostname
                      IN ServerNode(host, node.services.mgmt)],
        logged |-> FALSE]
  ELSE [result |-> <<>>, logged |-> TRUE]

LiveGetStatsSources ==
  /\ live_calls < MaxLiveCalls
  /\ \E response \in ExecuteRequest(NodeListsOf(MaxNodes)) :
       LET r == ServerNode_get_stats_sources(response) IN
       /\ sources' = r.result
       /\ error_log' = error_log + (IF r.logged THEN 1 ELSE 0)
  /\ live_calls' = live_calls + 1
  /\ UNCHANGED <<live_call, srcVars, nameVars, zipVars, timeVars>>

LiveGetBuckets ==
  /\ live_calls < MaxLiveCalls
  /\ sources # <<>>
  /\ \E response \in ExecuteRequest(BucketListingsOf(BucketNames)) :
       LET r == ServerNode_get_buckets(response) IN
       /\ live_call' = r
       /\ error_log' = error_log + (IF r.logged THEN 1 ELSE 0)
  /\ live_calls' = live_calls + 1
  /\ UNCHANGED <<sources, srcVars, nameVars, zipVars, timeVars>>

LiveInit == LiveIdle /\ SrcIdle /\ NameIdle /\ ZipIdle /\ TimeIdle

LiveNext == LiveGetStatsSources \/ LiveGetBuckets

SpecLive == LiveInit /\ [][LiveNext]_vars

(***************************************************************************)
(* Properties of the live source (SpecLive).                               *)
(***************************************************************************)
IsSorted(l) == \A i \in 1..(Len(l) - 1) : ~StrLess(l[i + 1], l[i])

\* C7: when the buckets request of a live node fails (network, credentials),
\* ServerNode.get_buckets logs an error and returns the empty list; the
\* failure is not raised to the caller.
C7_FailureYieldsEmptyList ==
  live_call.request = "failed" =>
    /\ live_call.status = "returned"
    /\ live_call.value = <<>>
    /\ live_call.logged

\* C8: every bucket list get_buckets returns is sorted lexicographically, of
\* an archived source and of a live source.
C8_BucketListsSorted ==
  /\ \A i \in 1..Len(returned) : IsSorted(returned[i])
  /\ live_call.status = "returned" => IsSorted(live_call.value)

(***************************************************************************)
(* CBCollect.get_data_source_names: short names of the cbcollect           *)
(* directories.                                                            *)
(***************************************************************************)
\* 'cbcollect_info_ns_'
DirPrefix ==
  <<"c","b","c","o","l","l","e","c","t","_","i","n","f","o","_","n","s","_">>

IsDigit(c) == c \in {"0", "1", "2", "3", "4", "5", "6", "7", "8", "9"}

\* The length of the longest run of digits of s that starts at position i.
RECURSIVE DigitRun(_, _)
DigitRun(s, i) ==
  IF i <= Len(s) /\ IsDigit(s[i]) THEN 1 + DigitRun(s, i + 1) ELSE 0

\* Whether '_(\d+)-(\d+)' matches s at position u.
StampsAt(s, u) ==
  LET n2 == DigitRun(s, u + 1) IN
  /\ u <= Len(s)
  /\ s[u] = "_"
  /\ n2 >= 1
  /\ u + 1 + n2 <= Len(s)
  /\ s[u + 1 + n2] = "-"
  /\ DigitRun(s, u + 2 + n2) >= 1

\* re.match('cbcollect_info_ns_(\d+)\@(.*)_(\d+)-(\d+)', s): whether it
\* matches (at the start of s, whatever follows the match), and its groups
\* (0-based, as str.format numbers them). The digit runs are greedy, and
\* (.*) is: it ends at the last '_' that the two stamps follow.
DirMatch(s) ==
  LET p0 == Len(DirPrefix) + 1
      n0 == DigitRun(s, p0)
      r == p0 + n0 + 1
      us == {u \in r..Len(s) : StampsAt(s, u)}
  IN IF /\ startswith(s, DirPrefix)
        /\ n0 >= 1
        /\ p0 + n0 <= Len(s)
        /\ s[p0 + n0] = "@"
        /\ us # {}
     THEN LET u == CHOOSE x \in us : \A y \in us : y <= x
              n2 == DigitRun(s, u + 1)
              n3 == DigitRun(s, u + 2 + n2)
          IN [matched |-> TRUE,
              groups |-> [k \in 0..3 |->
                 CASE k = 0 -> SubSeq(s, p0, p0 + n0 - 1)
                   [] k = 1 -> SubSeq(s, r, u - 1)
                   [] k = 2 -> SubSeq(s, u + 1, u + n2)
                   [] k = 3 -> SubSeq(s, u + 2 + n2, u + 1 + n2 + n3)]]
     ELSE [matched |-> FALSE, groups |-> [k \in 0..3 |-> <<>>]]

\* A piece of a format string: literal text, or a replacement field {k}.
Lit(text) == [field |-> -1, text |-> text]
Field(k) == [field |-> k, text |-> <<>>]

\* formats = ['{1}', 'ns_{0}@{1}', '{1}-{2}-{3}', 'ns_{0}-{1}-{2}-{3}']
formats ==
  << <<Field(1)>>,
     <<Lit(<<"n", "s", "_">>), Field(0), Lit(<<"@">>), Field(1)>>,
     <<Field(1), Lit(<<"-">>), Field(2), Lit(<<"-">>), Field(3)>>,
     <<Lit(<<"n", "s", "_">>), Field(0), Lit(<<"-">>), Field(1), Lit(<<"-">>),
       Field(2), Lit(<<"-">>), Field(3)>> >>

\* name_format.format(*groups)
RECURSIVE format(_, _)
format(name_format, groups) ==
  IF name_format = <<>> THEN <<>>
  ELSE LET piece == Head(name_format) IN
       (IF piece.field < 0 THEN piece.text ELSE groups[piece.field])
       \o format(Tail(name_format), groups)

\* The name of one directory under a format: the directory's own name when
\* the pattern does not match it.
RenderName(cbcollect, name_format) ==
  LET m == DirMatch(cbcollect) IN
  IF m.matched THEN format(name_format, m.groups) ELSE cbcollect

\* len(set(data_sources)) == len(data_sources)
AllDistinct(l) == \A i, j \in 1..Len(l) : l[i] = l[j] => i = j

\* A variant that returns the names without looking for duplicates.
try_get_data_source_names_unchecked(cbcollect_dirs, name_format) ==
  <<[i \in 1..Len(cbcollect_dirs) |-> RenderName(cbcollect_dirs[i], name_format)]>>

\* CBCollect.try_get_data_source_names: <<>> for None, else <<the names>>.
try_get_data_source_names(cbcollect_dirs, name_format) ==
  LET data_sources ==
        [i \in 1..Len(cbcollect_dirs) |-> RenderName(cbcollect_dirs[i], name_format)]
  IN IF AllDistinct(data_sources) THEN <<data_sources>> ELSE <<>>

\* if result: neither None nor the empty list.
Truthy(result) == result # <<>> /\ result[1] # <<>>

\* The loop over the formats from the k-th on.
RECURSIVE NamesFrom(_, _, _)
NamesFrom(cbcollect_dirs, fmts, k) ==
  IF k > Len(fmts) THEN cbcollect_dirs
  ELSE LET result == try_get_data_source_names(cbcollect_dirs, fmts[k]) IN
       IF Truthy(result) THEN result[1]
       ELSE NamesFrom(cbcollect_dirs, fmts, k + 1)

\* A variant that tries the most verbose format first.
get_data_source_names_verbose_first(cbcollect_dirs) ==
  NamesFrom(cbcollect_dirs,
            <<formats[4], formats[3], formats[2], formats[1]>>, 1)

\* CBCollect.get_data_source_names
get_data_source_names(cbcollect_dirs) == NamesFrom(cbcollect_dirs, formats, 1)

\* The directory names the model passes: cbcollect_info_ns_<n>@<h>_<s>-3 for
\* two node ids, two hosts and two start stamps, one of them also with
\* trailing text, and two names the pattern does not match.
DirName(n, h, st) ==
  DirPrefix \o <<n, "@", h, "_", st, "-", "3">>

DirNames ==
  {DirName(n, h, st) : n \in {"1", "2"}, h \in {"h", "g"}, st \in {"1", "2"}}
  \cup {DirName("1", "h", "1") \o <<"x">>, <<".">>, <<"h">>}

MaxDirs == 3

RECURSIVE DirListsOf(_)
DirListsOf(n) ==
  IF n = 0 THEN {<<>>}
  ELSE DirListsOf(n - 1)
       \cup {Append(l, d) : l \in {k \in DirListsOf(n - 1) : Len(k) = n - 1},
                             d \in DirNames}

GetDataSourceNames ==
  /\ names = <<>>
  /\ names' = <<get_data_source_names(dirs)>>
  /\ UNCHANGED <<dirs, srcVars, liveVars, zipVars, timeVars>>

NameInit ==
  /\ dirs \in DirListsOf(MaxDirs)
  /\ names = <<>>
  /\ SrcIdle /\ LiveIdle /\ ZipIdle /\ TimeIdle

NameNext == GetDataSourceNames

SpecNames == NameInit /\ [][NameNext]_vars

(***************************************************************************)
(* Properties of the names (SpecNames).                                    *)
(***************************************************************************)
\* The directories under the k-th format; under no format for k = 0.
Rendering(ds, k) ==
  [i \in 1..Len(ds) |-> IF k = 0 THEN ds[i] ELSE RenderName(ds[i], formats[k])]

\* C2: get_data_source_names returns a list as long as its argument, whose
\* i-th name is the one derived from the i-th directory (under one format
\* for all of them, or their own names), and the names are pairwise distinct
\* whenever the directories are.
C2_SameLengthOrderedDistinct ==
  names # <<>> =>
    /\ Len(names[1]) = Len(dirs)
    /\ \E k \in 0..Len(formats) : names[1] = Rendering(dirs, k)
    /\ AllDistinct(dirs) => AllDistinct(names[1])

\* Names were given to distinct directories of which two have the same name
\* under the first format.
C2_Witness ==
  /\ names # <<>>
  /\ Len(dirs) >= 2
  /\ AllDistinct(dirs)
  /\ ~AllDistinct(Rendering(dirs, 1))

\* C3: get_data_source_names returns the rendering of the directories under
\* the first of the four formats, from the least to the most verbose, under
\* which the rendered names are pairwise distinct (a directory the pattern
\* does not match rendered as its own name); a format under which two
\* directories render the same is not the one selected; under no such format,
\* the directory names are returned unchanged.
C3_FirstDistinctFormat ==
  names # <<>> =>
    LET good == {k \in 1..Len(formats) : AllDistinct(Rendering(dirs, k))} IN
    IF good = {}
    THEN names[1] = dirs
    ELSE \A k \in good : (\A j \in good : k <= j) => names[1] = Rendering(dirs, k)

\* Names were given to directories that share the host and differ in the
\* node id: the same under the first format, distinct under the second.
C3_Witness ==
  /\ names # <<>>
  /\ Len(dirs) >= 2
  /\ ~AllDistinct(Rendering(dirs, 1))
  /\ AllDistinct(Rendering(dirs, 2))
  /\ names[1] = Rendering(dirs, 2)
  /\ names[1] # Rendering(dirs, 4)
  /\ \E i, j \in 1..Len(dirs) :
       LET mi == DirMatch(dirs[i])
           mj == DirMatch(dirs[j])
       IN /\ mi.matched /\ mj.matched
          /\ mi.groups[1] = mj.groups[1]
          /\ mi.groups[0] # mj.groups[0]

(***************************************************************************)
(* CBCollect.get_cbcollect_dirs: the archives of the working directory.    *)
(* A path is the sequence of its components; the disk is the set of the    *)
(* paths that exist, each with its parent directories.                     *)
(***************************************************************************)
COUCHBASE_LOG == "couchbase.log"
STATS_SNAPSHOT_DIR_NAME == "stats_snapshot"

\* The top-level names of the model, in lexicographic order: two bundles
\* that glob('cbcollect_info*') finds, and a directory it does not find.
TopNames == <<"cbcollect_info_1", "cbcollect_info_2", "logs">>
GlobCbcollectInfo == {"cbcollect_info_1", "cbcollect_info_2"}

\* A path with its parent directories.
Parents(path) == {SubSeq(path, 1, n) : n \in 1..Len(path)}

\* CBCollect.make_snapshot_dir_path
make_snapshot_dir_path(candidate_cbcollect_dir) ==
  candidate_cbcollect_dir \o <<STATS_SNAPSHOT_DIR_NAME>>

\* CBCollect.snapshot_dir_exists, on the disk d.
snapshot_dir_exists(candidate_cbcollect_dir, d) ==
  make_snapshot_dir_path(candidate_cbcollect_dir) \in d

\* CBCollect.is_cbcollect_dir for a name of the disk d (a path that holds
\* another is a directory).
is_cbcollect_dir(candidate_path, d) ==
  candidate_path \in d /\ snapshot_dir_exists(candidate_path, d)

\* CBCollect.is_cbcollect_dir for a zipfile.Path: a directory of the archive
\* that holds 'stats_snapshot'.
ZipIsCbcollectDir(zip, p) ==
  \E k \in 1..Len(zip.items) :
    LET path == zip.items[k].path
        snap == make_snapshot_dir_path(<<p>>)
    IN Len(path) >= Len(snap) /\ SubSeq(path, 1, Len(snap)) = snap

\* CBCollect.is_stats_snapshot_file: the name of the entry (its components
\* joined by '/', and a '/' at the end of a directory) holds
\* '/stats_snapshot/'.
is_stats_snapshot_file(item) ==
  \E i \in 2..Len(item.path) :
    /\ item.path[i] = STATS_SNAPSHOT_DIR_NAME
    /\ i < Len(item.path) \/ item.isdir

\* item.filename.endswith(COUCHBASE_LOG)
IsCouchbaseLog(item) ==
  ~item.isdir /\ item.path[Len(item.path)] = COUCHBASE_LOG

\* A variant that looks for the file's name in the working directory itself.
path_exists_by_name(item_path, d) == <<item_path[Len(item_path)]>> \in d

\* path.exists(item_path), on the disk d.
path_exists(item_path, d) == item_path \in d

\* The loop over zip_file.infolist() for one bundle of the archive: the disk
\* and the list of the entries extracted, after the entries from the k-th on.
RECURSIVE ExtractItems(_, _, _, _)
ExtractItems(zip, k, snapshot_exists, acc) ==
  IF k > Len(zip.items) THEN acc
  ELSE LET item == zip.items[k]
           should_extract ==
             IF is_stats_snapshot_file(item) THEN ~snapshot_exists
             ELSE IF IsCouchbaseLog(item) THEN ~path_exists(item.path, acc.disk)
             ELSE FALSE
       IN ExtractItems(zip, k + 1, snapshot_exists,
            IF should_extract
            THEN [disk |-> acc.disk \cup Parents(item.path),
                  extracted |-> Append(acc.extracted, item.path)]
            ELSE acc)

\* CBCollect.maybe_extract_from_zipfile: the loop over root.iterdir(), from
\* the n-th top-level name of the archive on.
RECURSIVE MaybeExtractFrom(_, _, _)
MaybeExtractFrom(zip, n, acc) ==
  IF n > Len(zip.tops) THEN acc
  ELSE LET p == zip.tops[n] IN
       MaybeExtractFrom(zip, n + 1,
         IF ZipIsCbcollectDir(zip, p)
         THEN ExtractItems(zip, 1, snapshot_dir_exists(<<p>>, acc.disk), acc)
         ELSE acc)

maybe_extract_from_zipfile(zip, d) ==
  MaybeExtractFrom(zip, 1, [disk |-> d, extracted |-> <<>>])

\* CBCollect.find_cbcollect_dirs
find_cbcollect_dirs(d) ==
  SelectSeq(TopNames,
            LAMBDA f : f \in GlobCbcollectInfo /\ is_cbcollect_dir(<<f>>, d))

\* The entries an archive's extraction wrote over: the entries extracted
\* under a stats_snapshot directory that was on the disk d before the
\* archive was opened, and the couchbase.log files extracted that were.
ClobberedBy(extracted, d) ==
  {extracted[k] : k \in {j \in 1..Len(extracted) :
     LET path == extracted[j] IN
     \/ \E i \in 2..Len(path) :
          /\ path[i] = STATS_SNAPSHOT_DIR_NAME
          /\ SubSeq(path, 1, i) \in d
     \/ path[Len(path)] = COUCHBASE_LOG /\ path \in d}}

\* The loop of get_cbcollect_dirs over the archives, from the n-th on.
RECURSIVE ExtractAll(_, _, _)
ExtractAll(zs, n, acc) ==
  IF n > Len(zs) THEN acc
  ELSE LET r == maybe_extract_from_zipfile(zs[n], acc.disk) IN
       ExtractAll(zs, n + 1,
         [disk |-> r.disk,
          extracted |-> acc.extracted \o r.extracted,
          clobbered |-> acc.clobbered \cup ClobberedBy(r.extracted, acc.disk)])

\* CBCollect.get_cbcollect_dirs
get_cbcollect_dirs(zs, d) ==
  LET r == ExtractAll(zs, 1, [disk |-> d, extracted |-> <<>>, clobbered |-> {}])
  IN [disk |-> r.disk, extracted |-> r.extracted, clobbered |-> r.clobbered,
      dirs |-> find_cbcollect_dirs(r.disk)]

\* The entries of a directory b of an archive: nothing; a whole bundle (the
\* snapshot directory, a shard's meta.json, couchbase.log, another log); or
\* couchbase.log alone, which makes b no bundle.
EntriesOf(b, kind) ==
  CASE kind = "none" -> <<>>
    [] kind = "log" -> <<[path |-> <<b, COUCHBASE_LOG>>, isdir |-> FALSE]>>
    [] kind = "full" ->
         <<[path |-> <<b, STATS_SNAPSHOT_DIR_NAME>>, isdir |-> TRUE],
           [path |-> <<b, STATS_SNAPSHOT_DIR_NAME, "shard", "meta.json">>,
            isdir |-> FALSE],
           [path |-> <<b, COUCHBASE_LOG>>, isdir |-> FALSE],
           [path |-> <<b, "ns_server.log">>, isdir |-> FALSE]>>

\* The orders root.iterdir() may give the directories of an archive in.
TopOrders(b1, k1, b2, k2) ==
  IF k1 # "none" /\ k2 # "none" THEN {<<b1, b2>>, <<b2, b1>>}
  ELSE IF k1 # "none" THEN {<<b1>>}
  ELSE IF k2 # "none" THEN {<<b2>>}
  ELSE {<<>>}

\* An archive: its top-level names in the order root.iterdir() gives them,
\* and its entries in the order of infolist().
Archives ==
  LET b1 == TopNames[1]
      b2 == TopNames[2]
      other == TopNames[3]
      kinds == {"none", "log", "full"}
  IN UNION {{[tops |-> tops, items |-> EntriesOf(b1, k1) \o EntriesOf(b2, k2)] :
               tops \in TopOrders(b1, k1, b2, k2)} :
            k1 \in kinds, k2 \in kinds}
     \cup {[tops |-> <<other, b1>>,
            items |-> EntriesOf(other, "full") \o EntriesOf(b1, "full")]}

\* What the working directory holds of a bundle b before the first run:
\* nothing, its snapshot, or its snapshot and its couchbase.log.
OnDisk(b, kind) ==
  CASE kind = "nothing" -> {}
    [] kind = "snapshot" ->
         Parents(<<b, STATS_SNAPSHOT_DIR_NAME, "shard", "meta.json">>)
    [] kind = "snapshot+log" ->
         Parents(<<b, STATS_SNAPSHOT_DIR_NAME, "shard", "meta.json">>)
         \cup {<<b, COUCHBASE_LOG>>}

Disks ==
  {OnDisk(TopNames[1], k1) \cup OnDisk(TopNames[2], k2) :
     k1 \in {"nothing", "snapshot", "snapshot+log"},
     k2 \in {"nothing", "snapshot", "snapshot+log"}}

MaxZips == 2
MaxRuns == 2

RECURSIVE ZipListsOf(_)
ZipListsOf(n) ==
  IF n = 0 THEN {<<>>}
  ELSE ZipListsOf(n - 1)
       \cup {Append(l, a) : l \in {k \in ZipListsOf(n - 1) : Len(k) = n - 1},
                             a \in Archives}

GetCbcollectDirs ==
  /\ Len(runs) < MaxRuns
  /\ LET r == get_cbcollect_dirs(zips, disk) IN
       /\ disk' = r.disk
       /\ runs' = Append(runs, [extracted |-> r.extracted, dirs |-> r.dirs])
       /\ clobbered' = clobbered \cup r.clobbered
  /\ UNCHANGED <<zips, srcVars, liveVars, nameVars, timeVars>>

ZipInit ==
  /\ disk \in Disks
  /\ zips \in ZipListsOf(MaxZips)
  /\ runs = <<>>
  /\ clobbered = {}
  /\ SrcIdle /\ LiveIdle /\ NameIdle /\ TimeIdle

ZipNext == GetCbcollectDirs

SpecZip == ZipInit /\ [][ZipNext]_vars

(***************************************************************************)
(* Properties of the extraction (SpecZip).                                 *)
(***************************************************************************)
\* C4: maybe_extract_from_zipfile extracts no entry under a bundle's
\* stats_snapshot directory when that directory is already on disk, and no
\* couchbase.log that is already on disk, whatever the archive holds
\* (several bundles too): nothing already present is written over.
C4_NothingPresentExtracted == clobbered = {}

\* C5: a second run of get_cbcollect_dirs in the same working directory, with
\* the same archives, extracts no entry at all and returns the directories
\* the first run returned.
C5_SecondRunExtractsNothing ==
  \A i \in 2..Len(runs) :
    /\ runs[i].extracted = <<>>
    /\ runs[i].dirs = runs[1].dirs

\* Two runs were made over two archives that hold a bundle in common, and the
\* first run extracted entries.
C5_Witness ==
  /\ Len(runs) >= 2
  /\ Len(runs[1].extracted) >= 2
  /\ runs[1].dirs # <<>>
  /\ Len(zips) >= 2
  /\ \E b \in GlobCbcollectInfo :
       ZipIsCbcollectDir(zips[1], b) /\ ZipIsCbcollectDir(zips[2], b)

(***************************************************************************)
(* get_prometheus_times and CBCollect.compute_min_and_max_times.           *)
(* A time in seconds, x / 1000.0 for x in milliseconds, is the pair of its *)
(* whole seconds and its thousandths.                                      *)
(***************************************************************************)
\* meta['minTime'] / 1000.0
Seconds(ms) == [whole |-> ms \div 1000, milli |-> ms % 1000]

\* a < b for two times in seconds
SecLess(a, b) ==
  a.whole < b.whole \/ (a.whole = b.whole /\ a.milli < b.milli)

\* min(l) of a non-empty list of times: the first of the least.
RECURSIVE MinTime(_)
MinTime(l) ==
  IF Len(l) = 1 THEN l[1]
  ELSE LET m == MinTime(SubSeq(l, 1, Len(l) - 1)) IN
       IF SecLess(l[Len(l)], m) THEN l[Len(l)] ELSE m

\* max(l) of a non-empty list of times: the first of the greatest.
RECURSIVE MaxTime(_)
MaxTime(l) ==
  IF Len(l) = 1 THEN l[1]
  ELSE LET m == MaxTime(SubSeq(l, 1, Len(l) - 1)) IN
       IF SecLess(m, l[Len(l)]) THEN l[Len(l)] ELSE m

\* What a call ends with: a pair of times, or ValueError raised by min() of
\* an empty list.
Raised == [raised |-> TRUE, min |-> Seconds(0), max |-> Seconds(0)]
Pair(lo, hi) == [raised |-> FALSE, min |-> lo, max |-> hi]

\* A variant that takes both ends from min_times.
get_prometheus_times_of_min_times(meta_files) ==
  LET min_times == [i \in 1..Len(meta_files) |-> Seconds(meta_files[i].minTime)]
  IN IF meta_files = <<>> THEN Raised
     ELSE Pair(MinTime(min_times), MaxTime(min_times))

\* get_prometheus_times, given the meta.json files that glob finds.
get_prometheus_times(meta_files) ==
  LET min_times == [i \in 1..Len(meta_files) |-> Seconds(meta_files[i].minTime)]
      max_times == [i \in 1..Len(meta_files) |-> Seconds(meta_files[i].maxTime)]
  IN IF meta_files = <<>> THEN Raised
     ELSE Pair(MinTime(min_times), MaxTime(max_times))

\* CBCollect.compute_min_and_max_times, given what get_min_and_max_times of
\* each source ends with.
compute_min_and_max_times(times) ==
  IF times = <<>> \/ \E i \in 1..Len(times) : times[i].raised THEN Raised
  ELSE Pair(MinTime([i \in 1..Len(times) |-> times[i].min]),
            MaxTime([i \in 1..Len(times) |-> times[i].max]))

\* The times, in milliseconds, that the meta.json files of the model hold.
MetaTimes == {1000, 2500, 9000}
MetaFiles == [minTime : MetaTimes, maxTime : MetaTimes]

MaxShards == 2
MaxSources == 2

RECURSIVE ShardListsOf(_)
ShardListsOf(n) ==
  IF n = 0 THEN {<<>>}
  ELSE ShardListsOf(n - 1)
       \cup {Append(l, m) : l \in {k \in ShardListsOf(n - 1) : Len(k) = n - 1},
                             m \in MetaFiles}

\* get_min_and_max_times of one more source, whose directory holds the
\* meta.json files meta_files: a call of its own, or the next one of the list
\* comprehension of compute_min_and_max_times. Nothing catches a ValueError:
\* no source is scanned after it.
GetMinAndMaxTimes ==
  /\ Len(source_times) < MaxSources
  /\ overall = <<>>
  /\ \A i \in 1..Len(source_times) : ~source_times[i].raised
  /\ \E meta_files \in ShardListsOf(MaxShards) :
       /\ shards' = meta_files
       /\ source_times' = Append(source_times, get_prometheus_times(meta_files))
  /\ UNCHANGED <<overall, srcVars, liveVars, nameVars, zipVars>>

\* The end of compute_min_and_max_times over the sources scanned.
ComputeMinAndMaxTimes ==
  /\ overall = <<>>
  /\ overall' = <<compute_min_and_max_times(source_times)>>
  /\ UNCHANGED <<shards, source_times, srcVars, liveVars, nameVars, zipVars>>

TimeInit == TimeIdle /\ SrcIdle /\ LiveIdle /\ NameIdle /\ ZipIdle

TimeNext == GetMinAndMaxTimes \/ ComputeMinAndMaxTimes

SpecTimes == TimeInit /\ [][TimeNext]_vars

(***************************************************************************)
(* Properties of the times (SpecTimes).                                    *)
(***************************************************************************)
\* The least and the greatest of a non-empty set of numbers.
Least(S) == CHOOSE x \in S : \A y \in S : x <= y
Greatest(S) == CHOOSE x \in S : \A y \in S : y <= x

\* The directory scanned last: its times are the least minTime and the
\* greatest maxTime of its meta.json files, in seconds.
LastIsMinAndMax ==
  (shards # <<>>) =>
    LET t == source_times[Len(source_times)] IN
    /\ ~t.raised
    /\ t.min = Seconds(Least({shards[i].minTime : i \in 1..Len(shards)}))
    /\ t.max = Seconds(Greatest({shards[i].maxTime : i \in 1..Len(shards)}))

\* The times of the sources: the least of their minimums and the greatest of
\* their maximums.
OverallIsMinAndMax ==
  (overall # <<>> /\ source_times # <<>>
     /\ \A i \in 1..Len(source_times) : ~source_times[i].raised) =>
    /\ ~overall[1].raised
    /\ \E i \in 1..Len(source_times) : overall[1].min = source_times[i].min
    /\ \A i \in 1..Len(source_times) : ~SecLess(source_times[i].min, overall[1].min)
    /\ \E i \in 1..Len(source_times) : overall[1].max = source_times[i].max
    /\ \A i \in 1..Len(source_times) : ~SecLess(overall[1].max, source_times[i].max)

\* C9 as stated: for a non-empty set of meta.json files with any minTime and
\* maxTime, get_prometheus_times returns (least minTime, greatest maxTime) in
\* seconds and the pair has min <= max; compute_min_and_max_times of a
\* non-empty list of sources returns (least minimum, greatest maximum).
C9_MinMaxAndOrdered ==
  /\ LastIsMinAndMax
  /\ OverallIsMinAndMax
  /\ (shards # <<>>) =>
       LET t == source_times[Len(source_times)] IN ~SecLess(t.max, t.min)

\* C9 as amended: the same, the pair having min <= max when at least one of
\* the meta.json files has minTime <= maxTime.
C9_MinMaxAndOrderedIfAShardIs ==
  /\ LastIsMinAndMax
  /\ OverallIsMinAndMax
  /\ (shards # <<>> /\ \E i \in 1..Len(shards) : shards[i].minTime <= shards[i].maxTime) =>
       LET t == source_times[Len(source_times)] IN ~SecLess(t.max, t.min)

\* Two sources were scanned, the last with two shards of different minTime
\* and different maxTime, each with minTime <= maxTime and one of them not a
\* whole number of seconds, and the times of the sources were computed.
C9_Witness ==
  /\ Len(source_times) >= 2
  /\ overall # <<>>
  /\ ~overall[1].raised
  /\ source_times[1] # source_times[2]
  /\ Len(shards) >= 2
  /\ shards[1].minTime # shards[2].minTime
  /\ shards[1].maxTime # shards[2].maxTime
  /\ \A i \in 1..Len(shards) : shards[i].minTime <= shards[i].maxTime
  /\ \E i \in 1..Len(shards) : shards[i].minTime % 1000 # 0

====
